---- MODULE Spec2Model ----
(***************************************************************************)
(* The vote-data lifecycle of syukei-san (app.js): the HTTP handlers that  *)
(* create a poll file, vote on it once per browser, show its sorted        *)
(* tallies and sweep old files.  Texts are sequences of one-character      *)
(* strings, so that splitting into lines is computed as the handler does   *)
(* it.  The libraries app.js requires from ./libs (vote_data.js,           *)
(* clean_data.js, shemes, create_error_message.js) are modelled from the   *)
(* design document; the handlers themselves are modelled from app.js.      *)
(***************************************************************************)
EXTENDS Integers, Sequences, FiniteSets, TLC

VARIABLES
    files,      \* id -> poll document, one JSON file per poll under data/
    mtime,      \* id -> modification time of that file
    nextId,     \* the next identifier new voteData() generates
    cookies,    \* the browsers' cookie jars: pairs <<browser, poll id>>
    session,    \* browser -> cookie-session content (NoSession when null)
    now,        \* Date.now()
    req,        \* the request handled last
    res,        \* the response it got
    pending,    \* browser -> vote read from disk and not yet written back
    added,      \* history: <<browser, id>> -> tally increments it has made
    accepted    \* history: id -> POSTs that came without the cookie

vars == <<files, mtime, nextId, cookies, session, now, req, res, pending,
          added, accepted>>

--------------------------------------------------------------------------
\* Bounds of the model.
MaxPolls == 2
MaxTime == 2
MaxLen == 5

\* The retention window of the sweeper, in clock ticks.
MaxAge == 1

LF == "\n"
CR == "\r"
SP == " "

Browsers == {"b1", "b2"}
Ids == 1..MaxPolls

\* An id no poll was ever created under.
GhostId == 0

Chars == {"A", "B", SP, CR, LF}

Range(s) == {s[i] : i \in DOMAIN s}

RECURSIVE TextsOfLen(_)
TextsOfLen(n) ==
    IF n = 0 THEN {<<>>}
    ELSE {Append(t, c) : t \in TextsOfLen(n - 1), c \in Chars}

AllTexts == UNION {TextsOfLen(n) : n \in 0..MaxLen}

\* "A\nA\nB\n\n"
ExampleText == <<"A", LF, "A", LF, "B", LF, LF>>

CreateTexts == AllTexts \cup {ExampleText}

\* The text the lifecycle specification submits: three options, one of
\* them twice ("A\nB\r\nB\nC").
PollTexts == { <<"A", LF, "B", CR, LF, "B", LF, "C">> }

Names == {"", "Q"}

NoBrowser == ""

OptA == <<"A">>
OptB == <<"B">>
OptC == <<"C">>
OptZ == <<"Z">>
Keys == {OptB, OptC, OptZ}

--------------------------------------------------------------------------
\* String.prototype.split(/\r?\n/): the pieces between line breaks; a line
\* break is "\n" together with one "\r" right before it.
RECURSIVE SplitFrom(_, _, _)
SplitFrom(text, i, cur) ==
    IF i > Len(text) THEN <<cur>>
    ELSE IF text[i] = LF
         THEN LET piece == IF Len(cur) > 0 /\ cur[Len(cur)] = CR
                           THEN SubSeq(cur, 1, Len(cur) - 1)
                           ELSE cur
              IN <<piece>> \o SplitFrom(text, i + 1, <<>>)
         ELSE SplitFrom(text, i + 1, Append(cur, text[i]))

Split(text) == SplitFrom(text, 1, <<>>)

\* Array.prototype.indexOf: the first index holding e (0 when none).
IndexOf(self, e) ==
    IF \E i \in DOMAIN self : self[i] = e
    THEN CHOOSE i \in DOMAIN self :
            self[i] = e /\ \A j \in 1..(i - 1) : self[j] # e
    ELSE 0

\* .filter(v => v): the empty string is the only falsy string.
NonEmpty(v) == v # <<>>

FilterTruthy(lines) == SelectSeq(lines, NonEmpty)

RECURSIVE KeepLastFrom(_, _)
KeepLastFrom(self, i) ==
    IF i > Len(self) THEN <<>>
    ELSE IF \A j \in (i + 1)..Len(self) : self[j] # self[i]
         THEN <<self[i]>> \o KeepLastFrom(self, i + 1)
         ELSE KeepLastFrom(self, i + 1)

\* A deduplication that keeps the last occurrence instead of the first.
UniqueKeepLast(self) == KeepLastFrom(self, 1)

RECURSIVE UniqueFrom(_, _)
UniqueFrom(self, i) ==
    IF i > Len(self) THEN <<>>
    ELSE IF IndexOf(self, self[i]) = i
         THEN <<self[i]>> \o UniqueFrom(self, i + 1)
         ELSE UniqueFrom(self, i + 1)

\* .filter((elem, index, self) => self.indexOf(elem) === index)
Unique(self) == UniqueFrom(self, 1)

\* "Remove white space, Make data unique"
Normalize(text) == Unique(FilterTruthy(Split(text)))

--------------------------------------------------------------------------
\* Requests and responses.
NoOption == <<>>
NoText == <<>>
NoLocation == <<>>

Req(op, b, id, key, name, text, q) ==
    [op |-> op, browser |-> b, id |-> id, key |-> key, name |-> name,
     data |-> text, is_voted |-> q]

Resp(status, view, location, data, name, isVoted, setCookie) ==
    [status |-> status, view |-> view, location |-> location, data |-> data,
     name |-> name, isVoted |-> isVoted, setCookie |-> setCookie]

\* res.render(view, {...}): 200 with the view's variables.
Render(view, data, name, isVoted, setCookie) ==
    Resp(200, view, NoLocation, data, name, isVoted, setCookie)

\* res.redirect(location)
Redirect(location) == Resp(302, "", location, <<>>, "", FALSE, {})

\* An exception thrown in a handler: the framework's error response.  The
\* headers already set on the response object are kept in setCookie.
ErrorResponse(setCookie) ==
    Resp(500, "error", NoLocation, <<>>, "", FALSE, setCookie)

\* req.session = null
NoSession == [set |-> FALSE, errorMessages |-> <<>>,
              body |-> [name |-> "", data |-> NoText]]

--------------------------------------------------------------------------
\* libs/vote_data.js, libs/shemes, libs/clean_data.js

\* voteData.sanitizeData(req): the submitted fields with unsafe markup
\* stripped.  Chars holds no markup character, so the fields come out as
\* they went in.
sanitizeData(body) == [name |-> body.name, data |-> body.data]

\* valueScheme.fit against validationSchemes.createVoteData, collected by
\* createErrorMessage: one message key per field that fails.
errorMessagesOf(sanitizedData) ==
    (IF sanitizedData.name = "" THEN <<"name">> ELSE <<>>)
    \o (IF Normalize(sanitizedData.data) = <<>> THEN <<"data">> ELSE <<>>)

\* new voteData(): a fresh identifier.
GenerateId == nextId

Exists(fs, id) == id \in DOMAIN fs

Tally(poll, option) ==
    IF option \in DOMAIN poll.votes THEN poll.votes[option] ELSE 0

RECURSIVE SumTallies(_, _)
SumTallies(poll, options) ==
    IF options = {} THEN 0
    ELSE LET o == CHOOSE x \in options : TRUE
         IN Tally(poll, o) + SumTallies(poll, options \ {o})

Total(poll) == SumTallies(poll, DOMAIN poll.votes)

\* A vote that counts any submitted key, known or not.
voteAnyKey(poll, key) ==
    [poll EXCEPT !.votes =
        [o \in DOMAIN poll.votes \cup {key} |->
            IF o = key THEN Tally(poll, key) + 1 ELSE poll.votes[o]]]

\* voteData.vote(key): one more for a known option, nothing otherwise.
vote(poll, key) ==
    IF key \in Range(poll.data)
    THEN [poll EXCEPT !.votes =
            [o \in DOMAIN poll.votes \cup {key} |->
                IF o = key THEN Tally(poll, key) + 1 ELSE poll.votes[o]]]
    ELSE poll

\* Insert e behind every entry whose count is not smaller than e's.
RECURSIVE InsertByCount(_, _)
InsertByCount(sorted, e) ==
    IF sorted = <<>> THEN <<e>>
    ELSE IF Head(sorted)[2] >= e[2]
         THEN <<Head(sorted)>> \o InsertByCount(Tail(sorted), e)
         ELSE <<e>> \o sorted

RECURSIVE SortFrom(_, _, _)
SortFrom(poll, i, sorted) ==
    IF i > Len(poll.data) THEN sorted
    ELSE SortFrom(poll, i + 1,
                  InsertByCount(sorted,
                                <<poll.data[i], Tally(poll, poll.data[i])>>))

\* voteData.sortData(): (option, count) by count descending, ties in the
\* order of data.
sortData(poll) == SortFrom(poll, 1, <<>>)

\* The options with their counts in the order of data, unsorted.
unsortedData(poll) ==
    [i \in 1..Len(poll.data) |-> <<poll.data[i], Tally(poll, poll.data[i])>>]

\* voteData.isVoted(req): the per-poll marker cookie is in the request.
isVoted(jar, b, id) == <<b, id>> \in jar

\* voteData.setUniquenessCookie(req, res)
setUniquenessCookie(jar, b, id) == jar \cup {<<b, id>>}

\* cleanData.clean(dir): the files that stay, those not older than MaxAge.
Fresh(fs, mt, t) == {id \in DOMAIN fs : t - mt[id] <= MaxAge}

Restrict(f, S) == [x \in S |-> f[x]]

--------------------------------------------------------------------------
TypeOK ==
    /\ DOMAIN files \subseteq Ids
    /\ DOMAIN mtime = DOMAIN files
    /\ nextId \in 1..(MaxPolls + 1)
    /\ cookies \subseteq Browsers \X (Ids \cup {GhostId})
    /\ now \in 0..MaxTime
    /\ DOMAIN pending \subseteq Browsers

Init ==
    /\ files = <<>>
    /\ mtime = <<>>
    /\ nextId = 1
    /\ cookies = {}
    /\ session = [b \in Browsers |-> NoSession]
    /\ now = 0
    /\ req = Req("none", NoBrowser, GhostId, NoOption, "", NoText, FALSE)
    /\ res = Resp(0, "", NoLocation, <<>>, "", FALSE, {})
    /\ pending = <<>>
    /\ added = [p \in Browsers \X (Ids \cup {GhostId}) |-> 0]
    /\ accepted = [id \in Ids \cup {GhostId} |-> 0]

History == <<added, accepted>>

--------------------------------------------------------------------------
\* POST /create without the return of the validation branch: the handler
\* goes on and writes the file.
CreateFallThrough(b, name, text) ==
    LET sanitizedData == sanitizeData([name |-> name, data |-> text])
        errorMessages == errorMessagesOf(sanitizedData)
        id == GenerateId
    IN /\ nextId <= MaxPolls
       /\ req' = Req("create", b, GhostId, NoOption, name, text, FALSE)
       /\ session' = [session EXCEPT ![b] =
                        IF Len(errorMessages) > 0
                        THEN [set |-> TRUE, errorMessages |-> errorMessages,
                              body |-> [name |-> name, data |-> text]]
                        ELSE NoSession]
       /\ files' = [i \in DOMAIN files \cup {id} |->
                      IF i = id
                      THEN [name |-> sanitizedData.name,
                            data |-> Normalize(sanitizedData.data),
                            created_at |-> now,
                            votes |-> <<>>]
                      ELSE files[i]]
       /\ mtime' = [i \in DOMAIN files \cup {id} |->
                      IF i = id THEN now ELSE mtime[i]]
       /\ nextId' = nextId + 1
       /\ res' = Redirect(<<"/form/", id, "/">>)
       /\ UNCHANGED <<cookies, now, pending, History>>

\* POST /create with an identifier that is not unique: every poll is written
\* to the path of the first.
CreateSamePath(b, name, text) ==
    LET sanitizedData == sanitizeData([name |-> name, data |-> text])
        errorMessages == errorMessagesOf(sanitizedData)
        id == 1
    IN /\ req' = Req("create", b, GhostId, NoOption, name, text, FALSE)
       /\ IF Len(errorMessages) > 0
          THEN /\ session' = [session EXCEPT ![b] =
                                [set |-> TRUE, errorMessages |-> errorMessages,
                                 body |-> [name |-> name, data |-> text]]]
               /\ res' = Redirect(<<"/#container">>)
               /\ UNCHANGED <<files, mtime, nextId>>
          ELSE /\ nextId <= MaxPolls
               /\ session' = [session EXCEPT ![b] = NoSession]
               /\ files' = [i \in DOMAIN files \cup {id} |->
                              IF i = id
                              THEN [name |-> sanitizedData.name,
                                    data |-> Normalize(sanitizedData.data),
                                    created_at |-> now,
                                    votes |-> <<>>]
                              ELSE files[i]]
               /\ mtime' = [i \in DOMAIN files \cup {id} |->
                              IF i = id THEN now ELSE mtime[i]]
               /\ nextId' = nextId + 1
               /\ res' = Redirect(<<"/form/", id, "/">>)
       /\ UNCHANGED <<cookies, now, pending, History>>

\* app.post('/create')
Create(b, name, text) ==
    LET sanitizedData == sanitizeData([name |-> name, data |-> text])
        errorMessages == errorMessagesOf(sanitizedData)
        id == GenerateId
    IN /\ req' = Req("create", b, GhostId, NoOption, name, text, FALSE)
       /\ IF Len(errorMessages) > 0
          THEN /\ session' = [session EXCEPT ![b] =
                                [set |-> TRUE, errorMessages |-> errorMessages,
                                 body |-> [name |-> name, data |-> text]]]
               /\ res' = Redirect(<<"/#container">>)
               /\ UNCHANGED <<files, mtime, nextId>>
          ELSE /\ nextId <= MaxPolls
               /\ session' = [session EXCEPT ![b] = NoSession]
               /\ files' = [i \in DOMAIN files \cup {id} |->
                              IF i = id
                              THEN [name |-> sanitizedData.name,
                                    data |-> Normalize(sanitizedData.data),
                                    created_at |-> now,
                                    votes |-> <<>>]
                              ELSE files[i]]
               /\ mtime' = [i \in DOMAIN files \cup {id} |->
                              IF i = id THEN now ELSE mtime[i]]
               /\ nextId' = nextId + 1
               /\ res' = Redirect(<<"/form/", id, "/">>)
       /\ UNCHANGED <<cookies, now, pending, History>>

--------------------------------------------------------------------------
\* The state after the vote of b on the poll it read has been written.
Voted(b, id, key, poll, jar) ==
    LET after == vote(poll, key)
    IN /\ files' = IF after = poll /\ Exists(files, id) THEN files
                   ELSE [i \in DOMAIN files \cup {id} |->
                           IF i = id THEN after ELSE files[i]]
       /\ mtime' = IF after = poll /\ Exists(files, id) THEN mtime
                   ELSE [i \in DOMAIN files \cup {id} |->
                           IF i = id THEN now ELSE mtime[i]]
       /\ cookies' = jar
       /\ added' = [added EXCEPT ![<<b, id>>] = @ + Total(after) - Total(poll)]

\* POST /result/:id/ with the uniqueness test dropped: every request votes.
PostResultNoGuard(b, id, key) ==
    /\ b \notin DOMAIN pending
    /\ Exists(files, id)
    /\ req' = Req("vote", b, id, key, "", NoText, FALSE)
    /\ Voted(b, id, key, files[id], setUniquenessCookie(cookies, b, id))
    /\ res' = Render("result", sortData(files'[id]), files'[id].name, FALSE,
                     {id})
    /\ accepted' = [accepted EXCEPT ![id] =
                      @ + (IF isVoted(cookies, b, id) THEN 0 ELSE 1)]
    /\ UNCHANGED <<nextId, session, now, pending>>

\* POST /result/:id/ marking the browser only when its key was an option.
PostResultMarkKnown(b, id, key) ==
    /\ b \notin DOMAIN pending
    /\ Exists(files, id)
    /\ ~isVoted(cookies, b, id)
    /\ req' = Req("vote", b, id, key, "", NoText, FALSE)
    /\ Voted(b, id, key, files[id],
             IF key \in Range(files[id].data)
             THEN setUniquenessCookie(cookies, b, id) ELSE cookies)
    /\ res' = Render("result", sortData(files'[id]), files'[id].name, FALSE,
                     {id})
    /\ accepted' = [accepted EXCEPT ![id] = @ + 1]
    /\ UNCHANGED <<nextId, session, now, pending>>

\* app.post('/result/:id/'), handled in one piece.
PostResult(b, id, key) ==
    /\ b \notin DOMAIN pending
    /\ req' = Req("vote", b, id, key, "", NoText, FALSE)
    /\ IF isVoted(cookies, b, id)
       THEN /\ res' = Redirect(<<"/form/", id, "/?is_voted=1">>)
            /\ UNCHANGED <<files, mtime, cookies, added, accepted>>
       ELSE IF Exists(files, id)
               THEN /\ accepted' = [accepted EXCEPT ![id] = @ + 1]
                    /\ Voted(b, id, key, files[id],
                             setUniquenessCookie(cookies, b, id))
                    /\ res' = Render("result", sortData(files'[id]),
                                     files'[id].name, FALSE, {id})
               ELSE \* vote() finds no file and throws; whether the browser
                    \* keeps the cookie of an error response is left open
                    /\ res' = ErrorResponse({id})
                    /\ cookies' \in {cookies,
                                     setUniquenessCookie(cookies, b, id)}
                    /\ UNCHANGED <<files, mtime, added, accepted>>
    /\ UNCHANGED <<nextId, session, now, pending>>

\* app.post('/result/:id/') up to the point where vote() has read the file.
VoteBegin(b, id, key) ==
    /\ b \notin DOMAIN pending
    /\ ~isVoted(cookies, b, id)
    /\ Exists(files, id)
    /\ req' = Req("vote", b, id, key, "", NoText, FALSE)
    /\ pending' = [x \in DOMAIN pending \cup {b} |->
                     IF x = b THEN [id |-> id, key |-> key, poll |-> files[id]]
                     ELSE pending[x]]
    /\ accepted' = [accepted EXCEPT ![id] = @ + 1]
    /\ UNCHANGED <<files, mtime, nextId, cookies, session, now, res, added>>

\* The rest of it: vote() writes what it read plus one, the result is
\* rendered and the browser has its cookie.
VoteEnd(b) ==
    /\ b \in DOMAIN pending
    /\ req' = Req("vote", b, pending[b].id, pending[b].key, "", NoText, FALSE)
    /\ Voted(b, pending[b].id, pending[b].key, pending[b].poll,
             setUniquenessCookie(cookies, b, pending[b].id))
    /\ res' = Render("result", sortData(files'[pending[b].id]),
                     files'[pending[b].id].name, FALSE, {pending[b].id})
    /\ pending' = Restrict(pending, DOMAIN pending \ {b})
    /\ UNCHANGED <<nextId, session, now, accepted>>

\* GET /form/:id/ that renders an empty form when the file is not there.
GetFormLenient(id, q) ==
    /\ req' = Req("form", NoBrowser, id, NoOption, "", NoText, q)
    /\ res' = IF Exists(files, id)
              THEN Render("form", files[id].data, files[id].name, q, {})
              ELSE Render("form", <<>>, "", q, {})
    /\ UNCHANGED <<files, mtime, nextId, cookies, session, now, pending,
                   History>>

\* app.get('/form/:id/')
GetForm(id, q) ==
    /\ req' = Req("form", NoBrowser, id, NoOption, "", NoText, q)
    /\ res' = IF Exists(files, id)
              THEN Render("form", files[id].data, files[id].name, q, {})
              ELSE ErrorResponse({})
    /\ UNCHANGED <<files, mtime, nextId, cookies, session, now, pending,
                   History>>

\* GET /result/:id/ rendering the tallies as stored, without sortData().
GetResultUnsorted(id) ==
    /\ req' = Req("result", NoBrowser, id, NoOption, "", NoText, FALSE)
    /\ res' = IF Exists(files, id)
              THEN Render("result", unsortedData(files[id]), files[id].name,
                          FALSE, {})
              ELSE ErrorResponse({})
    /\ UNCHANGED <<files, mtime, nextId, cookies, session, now, pending,
                   History>>

\* app.get('/result/:id/')
GetResult(id) ==
    /\ req' = Req("result", NoBrowser, id, NoOption, "", NoText, FALSE)
    /\ res' = IF Exists(files, id)
              THEN Render("result", sortData(files[id]), files[id].name,
                          FALSE, {})
              ELSE ErrorResponse({})
    /\ UNCHANGED <<files, mtime, nextId, cookies, session, now, pending,
                   History>>

\* GET / without the call of clean().
GetIndexNoClean ==
    /\ req' = Req("index", NoBrowser, GhostId, NoOption, "", NoText, FALSE)
    /\ res' = Render("index", <<>>, "", FALSE, {})
    /\ UNCHANGED <<files, mtime, nextId, cookies, session, now, pending,
                   History>>

\* app.get('/'): sweeps the data directory, then renders the creation form.
GetIndex ==
    /\ req' = Req("index", NoBrowser, GhostId, NoOption, "", NoText, FALSE)
    /\ files' = Restrict(files, Fresh(files, mtime, now))
    /\ mtime' = Restrict(mtime, Fresh(files, mtime, now))
    /\ res' = Render("index", <<>>, "", FALSE, {})
    /\ UNCHANGED <<nextId, cookies, session, now, pending, History>>

\* app.get('/active'), app.get('/term'), app.get('/lp/')
GetStatic(page) ==
    /\ req' = Req(page, NoBrowser, GhostId, NoOption, "", NoText, FALSE)
    /\ res' = Render(page, <<>>, "", FALSE, {})
    /\ UNCHANGED <<files, mtime, nextId, cookies, session, now, pending,
                   History>>

\* Time passes between requests.
Tick ==
    /\ now < MaxTime
    /\ now' = now + 1
    /\ UNCHANGED <<files, mtime, nextId, cookies, session, req, res, pending,
                   History>>

\* The ids a request may name: those of the polls created so far (swept
\* since or not) and, for a page request, one that never was.
Created == {i \in Ids : i < nextId}
Targets == Created \cup {GhostId}

Next ==
    \/ \E b \in Browsers, text \in PollTexts : Create(b, "Q", text)
    \/ \E b \in Browsers, id \in Created, key \in Keys : PostResult(b, id, key)
    \/ \E id \in Targets, q \in BOOLEAN : GetForm(id, q)
    \/ \E id \in Targets : GetResult(id)
    \/ GetIndex
    \/ \E page \in {"active", "term", "lp"} : GetStatic(page)
    \/ Tick

Spec == Init /\ [][Next]_vars

\* POST /create as the first request, over every text of up to MaxLen
\* characters.
NextCreate ==
    \E name \in Names, text \in CreateTexts :
        req.op = "none" /\ Create("b1", name, text)

SpecCreate == Init /\ [][NextCreate]_vars

\* The vote handlers of several server processes sharing the data
\* directory: another request may run between a vote's read and its write.
NextRace ==
    \/ \E b \in Browsers : Create(b, "Q", <<"A", LF, "B">>)
    \/ \E b \in Browsers, id \in Created, key \in Keys : VoteBegin(b, id, key)
    \/ \E b \in Browsers : VoteEnd(b)
    \/ \E b \in Browsers, id \in Created, key \in Keys :
          isVoted(cookies, b, id) /\ PostResult(b, id, key)
    \/ \E id \in Targets : GetResult(id)

SpecRace == Init /\ [][NextRace]_vars

--------------------------------------------------------------------------
\* Properties.  A step handled a request of kind op when the clock stands
\* still and the request recorded is of that kind.
Handled(op) == now' = now /\ req'.op = op

\* The first position of e in seq.
MinPos(seq, e) ==
    CHOOSE k \in DOMAIN seq :
        seq[k] = e /\ \A m \in DOMAIN seq : seq[m] = e => k <= m

\* Where a vote that carries the cookie is sent, and what it leaves alone.
RejectedTo(view) ==
    (Handled("vote") /\ isVoted(cookies, req'.browser, req'.id))
        => /\ res' = Redirect(<<view, req'.id, "/?is_voted=1">>)
           /\ files' = files
           /\ added' = added

AtMostOneVoteEach ==
    \A b \in Browsers, id \in Ids : added[<<b, id>>] <= 1

\* C1 as stated: a POST /result/:id/ that carries the uniqueness cookie is
\* redirected to the result view with is_voted=1 and increments no tally,
\* and a browser that keeps its cookies adds at most one vote to a poll.
C1_RejectedToResultView ==
    [][RejectedTo("/result/")]_vars /\ []AtMostOneVoteEach

\* C1 amended: a POST /result/:id/ that carries the uniqueness cookie is
\* redirected to the voting form of the poll, /form/:id/?is_voted=1, and
\* increments no tally; a browser that keeps its cookies adds at most one
\* vote to a poll.
C1_RejectedToFormView ==
    [][RejectedTo("/form/")]_vars /\ []AtMostOneVoteEach

\* A second vote of a browser that had voted was turned away.
C1_Witness ==
    /\ req.op = "vote"
    /\ res.status = 302
    /\ Exists(files, req.id)
    /\ added[<<req.browser, req.id>>] = 1

\* C2: an accepted vote for one of the poll's options raises that option's
\* tally by exactly one (to 1 when there was no entry) and leaves the other
\* tallies alone; a vote for anything else leaves all tallies alone; the
\* keys of votes are always options of data.
C2_VoteCountsKnownOptions ==
    /\ [][(/\ Handled("vote")
           /\ ~isVoted(cookies, req'.browser, req'.id)
           /\ Exists(files, req'.id))
          => LET old == files[req'.id]
                 new == files'[req'.id]
                 key == req'.key
             IN /\ Exists(files', req'.id)
                /\ IF key \in Range(old.data)
                   THEN /\ key \in DOMAIN new.votes
                        /\ Tally(new, key) = Tally(old, key) + 1
                        /\ \A o \in (Keys \cup Range(old.data)) \ {key} :
                              Tally(new, o) = Tally(old, o)
                        /\ DOMAIN new.votes = DOMAIN old.votes \cup {key}
                   ELSE new.votes = old.votes]_vars
    /\ [](\A id \in DOMAIN files :
             DOMAIN files[id].votes \subseteq Range(files[id].data))

\* A vote for an unknown option was accepted after one that counted, and
\* the tallies still hold that one vote.
C2_Witness ==
    /\ req.op = "vote"
    /\ req.key = OptZ
    /\ res.status = 200
    /\ Exists(files, req.id)
    /\ files[req.id].votes = [o \in {OptB} |-> 1]

C5_PollImmutableButTallies ==
    [][/\ \A id \in DOMAIN files \cap DOMAIN files' :
             /\ files'[id].name = files[id].name
             /\ files'[id].data = files[id].data
             /\ files'[id].created_at = files[id].created_at
             /\ \A o \in Keys \cup Range(files[id].data) :
                   Tally(files'[id], o) >= Tally(files[id], o)
       /\ (DOMAIN files' \ DOMAIN files # {}) => Handled("create")
       /\ (Handled("form") \/ Handled("result"))
             => files' = files /\ mtime' = mtime]_vars

\* The first poll holds two votes, a second poll was created after it, and
\* the results were looked at last.
C5_Witness ==
    /\ req.op = "result"
    /\ req.id = 1
    /\ Exists(files, 1)
    /\ Exists(files, 2)
    /\ Total(files[1]) = 2

MissingPollRequest ==
    /\ now' = now
    /\ req'.op \in {"form", "result", "vote"}
    /\ ~Exists(files, req'.id)

\* C8 as stated: GET /form/:id/, GET /result/:id/ and POST /result/:id/ for
\* an id without a file end in an error response, create no file and
\* record no tally.
C8_MissingPollAlwaysError ==
    [][MissingPollRequest
        => res'.status = 500 /\ files' = files /\ added' = added]_vars

\* C8 amended: for an id without a file, GET /form/:id/, GET /result/:id/
\* and a POST /result/:id/ without the uniqueness cookie end in an error
\* response; a POST that carries the cookie is redirected to
\* /form/:id/?is_voted=1 before the poll is loaded; none of them creates a
\* file or records a tally.
C8_MissingPollErrorUnlessVoted ==
    [][MissingPollRequest
        => /\ files' = files
           /\ added' = added
           /\ IF req'.op = "vote" /\ isVoted(cookies, req'.browser, req'.id)
              THEN res' = Redirect(<<"/form/", req'.id, "/?is_voted=1">>)
              ELSE res'.status = 500]_vars

\* A vote on a swept poll, by a browser that holds its cookie, was
\* redirected.
C8_Witness ==
    /\ req.op = "vote"
    /\ ~Exists(files, req.id)
    /\ res.status = 302
    /\ isVoted(cookies, req.browser, req.id)

\* view lists every option of poll once with its count, larger counts
\* first, equal counts in the order of data.
SortedView(view, poll) ==
    /\ Len(view) = Len(poll.data)
    /\ \A i \in DOMAIN poll.data :
          \E k \in DOMAIN view :
             view[k] = <<poll.data[i], Tally(poll, poll.data[i])>>
    /\ \A k, m \in DOMAIN view : k < m => view[k][2] >= view[m][2]
    /\ \A k, m \in DOMAIN view :
          (k < m /\ view[k][2] = view[m][2])
             => MinPos(poll.data, view[k][1]) < MinPos(poll.data, view[m][1])

ExamplePoll ==
    [name |-> "Q", data |-> <<OptA, OptB, OptC>>, created_at |-> 0,
     votes |-> [o \in {OptA, OptB, OptC} |-> IF o = OptB THEN 5 ELSE 2]]

\* C9: the result view of a poll shows every option with its count, by
\* count descending and, among equal counts, in the order of data; tallies
\* {A:2, B:5, C:2} over [A, B, C] come out as [(B,5), (A,2), (C,2)].
C9_ResultSortedStable ==
    /\ (req.op \in {"vote", "result"} /\ res.status = 200
            /\ Exists(files, req.id))
          => SortedView(res.data, files[req.id])
    /\ sortData(ExamplePoll) = << <<OptB, 5>>, <<OptA, 2>>, <<OptC, 2>> >>

\* The results of a poll with one vote each for its second and third
\* option were shown.
C9_Witness ==
    /\ req.op = "result"
    /\ res.status = 200
    /\ res.data = << <<OptB, 1>>, <<OptC, 1>>, <<OptA, 0>> >>

====
